---- MODULE Spec2Model ----
(***************************************************************************)
(* Verification model of the maintenance scripts of merlin2:               *)
(*   add_universal_questions.py        the Template Patcher                *)
(*   backup_.../add_grid_capacity.py   the gridCapacity splice             *)
(*   scripts/create_stripe_products.py billing provisioning                *)
(*   op1b_extract.py                   the Structural Line Editor          *)
(* Each script is a state machine of its own (SpecPatcher, SpecCapacity,   *)
(* SpecStripe, SpecEditor); the variables of the other scripts stay idle.  *)
(***************************************************************************)
EXTENDS Integers, Sequences, FiniteSets, TLC

VARIABLES
    templates,   \* patcher: the Templates the data file was written from
    original,    \* patcher: text of useCaseTemplates.ts before the first run
    previous,    \* patcher: text of the file before the latest run
    content,     \* patcher: text of the file on disk
    runs,        \* patcher: number of completed runs of the script
    cap_input,   \* capacity: text of the data file before the script
    cap_content, \* capacity: text of the data file on disk
    cap_pc,      \* capacity: "start" | "done"
    plan_idx,    \* stripe: index into plans of the loop at line 43
    step,        \* stripe: position of the script
    requests,    \* stripe: the API requests issued so far, in order
    responses,   \* stripe: the outcome of each request, in order
    results,     \* stripe: the tiers recorded in the results dict
    lines,       \* editor: the list read by readlines(), as edited so far
    ed_pc,       \* editor: "step1" | "step2" | "step3" | "done"
    file_len,    \* editor: number of lines of the file as read
    anchor       \* editor: line number of the useWizardLocation import (0: none)

vars == <<templates, original, previous, content, runs,
          cap_input, cap_content, cap_pc,
          plan_idx, step, requests, responses, results,
          lines, ed_pc, file_len, anchor>>

patcher_vars  == <<templates, original, previous, content, runs>>
capacity_vars == <<cap_input, cap_content, cap_pc>>
stripe_vars   == <<plan_idx, step, requests, responses, results>>
editor_vars   == <<lines, ed_pc, file_len, anchor>>

(***************************************************************************)
(* Generic helpers                                                         *)
(***************************************************************************)
Min(S) == CHOOSE x \in S : \A y \in S : x <= y

Last(s) == s[Len(s)]

Contains(s, x) == \E k \in 1..Len(s) : s[k] = x

Distinct(s) == \A a, b \in 1..Len(s) : a # b => s[a] # s[b]

RECURSIVE Flatten(_)
Flatten(ss) == IF ss = <<>> THEN <<>> ELSE Head(ss) \o Flatten(Tail(ss))

(***************************************************************************)
(* The Template Patcher, add_universal_questions.py                        *)
(*                                                                         *)
(* Text is a sequence of tokens; each token stands for one fixed piece of  *)
(* text of the data file:                                                  *)
(*   "HEAD"   "  {\n    name: 'x',"         the record up to its list      *)
(*   "START"  "    customQuestions: ["      the text the pattern starts on *)
(*   "END"    "    ]\n  },"                 the text the pattern ends on   *)
(*   "ALT"    "    ],\n    tags: []\n  },"  a list closed in another way   *)
(*   "NL"     "\n"                                                         *)
(*   ","      ","                                                          *)
(*   "TAIL"   "];"                                                         *)
(*   an id    "      {\n        id: '<id>', ... \n      }"  one Question   *)
(***************************************************************************)
MaxTemplates == 2
MaxQuestions == 2
MaxRuns == 2

\* ids of the Questions of the injection list, lines 10-55, in order
InjectedIds == <<"facilitySize", "operatingHours", "peakLoad", "gridConnection">>

\* ids a Template of the input may hold, in file order
InputIds == <<"industrySpecific", "facilitySize", "gridConnection">>

QuestionIds == {"industrySpecific", "facilitySize", "operatingHours",
                "peakLoad", "gridConnection"}

Closings == {"END", "ALT"}

\* faulty variant: two records of the injection list change places
UNIVERSAL_QUESTIONS_reordered ==
    <<"facilitySize", ",", "NL", "peakLoad", ",", "NL",
      "operatingHours", ",", "NL", "gridConnection">>

\* UNIVERSAL_QUESTIONS: four records joined by ",\n"; no separator at either end
UNIVERSAL_QUESTIONS ==
    <<"facilitySize", ",", "NL", "operatingHours", ",", "NL",
      "peakLoad", ",", "NL", "gridConnection">>

\* 'gridConnection' in questions_block: a substring test on the block's text
HasMarker(block) == Contains(block, "gridConnection")

\* str.rstrip(): drops the trailing whitespace of the block
RECURSIVE rstrip(_)
rstrip(block) ==
    IF block # <<>> /\ Last(block) = "NL"
    THEN rstrip(SubSeq(block, 1, Len(block) - 1))
    ELSE block

\* str.endswith(','): the texts of "," "HEAD" "END" "ALT" end with a comma
endswith_comma(block) ==
    block # <<>> /\ Last(block) \in {",", "HEAD", "END", "ALT"}

\* faulty variant: the marker test is missing
add_questions_always(questions_block, closing) ==
    LET stripped == rstrip(questions_block)
        block == IF endswith_comma(stripped) THEN stripped
                 ELSE stripped \o <<",">>
    IN block \o <<"NL">> \o UNIVERSAL_QUESTIONS \o <<"NL">> \o closing

\* faulty variant: the block is stripped before the marker test, so a skipped block
\* loses its trailing whitespace
add_questions_strip_first(questions_block, closing) ==
    LET stripped == rstrip(questions_block)
        block == IF endswith_comma(stripped) THEN stripped
                 ELSE stripped \o <<",">>
    IN IF HasMarker(questions_block)
       THEN stripped \o closing
       ELSE block \o <<"NL">> \o UNIVERSAL_QUESTIONS \o <<"NL">> \o closing

\* add_questions_if_missing(match): group(1) is questions_block, group(2) closing
add_questions_if_missing(questions_block, closing) ==
    LET stripped == rstrip(questions_block)
        block == IF endswith_comma(stripped) THEN stripped
                 ELSE stripped \o <<",">>
    IN IF HasMarker(questions_block)
       THEN questions_block \o closing
       ELSE block \o <<"NL">> \o UNIVERSAL_QUESTIONS \o <<"NL">> \o closing

\* re.sub(pattern, add_questions_if_missing, content) with
\* pattern = (    customQuestions: \[[\s\S]*?)(    \]\n  },)
\* the leftmost START, lazily up to the first END after it; then on from there
RECURSIVE re_sub(_)
re_sub(text) ==
    LET starts == {p \in 1..Len(text) : text[p] = "START"}
    IN IF starts = {} THEN text
       ELSE LET p == Min(starts)
                ends == {q \in (p + 1)..Len(text) : text[q] = "END"}
            IN IF ends = {} THEN text
               ELSE LET q == Min(ends)
                    IN SubSeq(text, 1, p - 1)
                       \o add_questions_if_missing(SubSeq(text, p, q - 1),
                                                   <<text[q]>>)
                       \o re_sub(SubSeq(text, q + 1, Len(text)))

(* The data file: an array of Template records, each with a customQuestions *)
(* list of Questions, the last Question with or without a trailing comma.   *)
RECURSIVE Subsequences(_, _)
Subsequences(s, n) ==
    IF s = <<>> \/ n = 0 THEN {<<>>}
    ELSE Subsequences(Tail(s), n)
         \cup {<<Head(s)>> \o r : r \in Subsequences(Tail(s), n - 1)}

TemplateShapes ==
    {[ids |-> i, comma |-> c, close |-> k] :
        i \in Subsequences(InputIds, MaxQuestions),
        c \in BOOLEAN, k \in Closings} \
    {[ids |-> <<>>, comma |-> TRUE, close |-> k] : k \in Closings}

RECURSIVE RenderQuestions(_)
RenderQuestions(ids) ==
    IF ids = <<>> THEN <<>>
    ELSE IF Len(ids) = 1 THEN <<ids[1]>>
    ELSE <<ids[1], ",", "NL">> \o RenderQuestions(Tail(ids))

RenderTemplate(t) ==
    <<"HEAD", "NL", "START", "NL">>
    \o RenderQuestions(t.ids)
    \o (IF t.comma THEN <<",">> ELSE <<>>)
    \o (IF t.ids = <<>> THEN <<>> ELSE <<"NL">>)
    \o <<t.close, "NL">>

RenderFile(ts) ==
    Flatten([i \in 1..Len(ts) |-> RenderTemplate(ts[i])]) \o <<"TAIL">>

\* the i-th customQuestions list of a text: from its START through the token
\* that closes it
StartOf(text, i) ==
    CHOOSE p \in 1..Len(text) :
        /\ text[p] = "START"
        /\ Cardinality({k \in 1..p : text[k] = "START"}) = i

CloseOf(text, i) ==
    Min({q \in (StartOf(text, i) + 1)..Len(text) : text[q] \in Closings})

Region(text, i) == SubSeq(text, StartOf(text, i), CloseOf(text, i))

IsQuestion(tok) == tok \in QuestionIds

Records(region) == SelectSeq(region, IsQuestion)

IdleCapacity == cap_input = <<>> /\ cap_content = <<>> /\ cap_pc = "idle"
IdleStripe ==
    /\ plan_idx = 0 /\ step = "idle" /\ requests = <<>>
    /\ responses = <<>> /\ results = {}
IdleEditor == lines = <<>> /\ ed_pc = "idle" /\ file_len = 0 /\ anchor = 0
IdlePatcher ==
    /\ templates = <<>> /\ original = <<>> /\ previous = <<>>
    /\ content = <<>> /\ runs = 0

InitPatcher ==
    /\ templates \in UNION {[1..n -> TemplateShapes] : n \in 1..MaxTemplates}
    /\ original = RenderFile(templates)
    /\ previous = original
    /\ content = original
    /\ runs = 0
    /\ IdleCapacity /\ IdleStripe /\ IdleEditor

\* one run of the script: read the file, re.sub, write it back (lines 58-86)
RunPatcher ==
    /\ runs < MaxRuns
    /\ previous' = content
    /\ content' = re_sub(content)
    /\ runs' = runs + 1
    /\ UNCHANGED <<templates, original>>
    /\ UNCHANGED <<capacity_vars, stripe_vars, editor_vars>>

SpecPatcher == InitPatcher /\ [][RunPatcher]_vars

(***************************************************************************)
(* Properties of the Template Patcher, under SpecPatcher                   *)
(***************************************************************************)
NumTemplates == Len(templates)

\* the customQuestions block of Template i holds the marker text
MarkerIn(i) == HasMarker(Region(original, i))

\* the four Questions were added to the list of Template i by the first run
InjectedInto(text, i) ==
    Records(Region(text, i)) # Records(Region(original, i))

\* the list of Template i after the run: its Questions, then the injection
\* list in its fixed order, then the closing it had
AppendedTo(i) ==
    /\ Records(Region(content, i)) = Records(Region(original, i)) \o InjectedIds
    /\ Last(Region(content, i)) = Last(Region(original, i))

\* the pattern matches the block of Template i and nothing else: the match
\* starts on its START (the list before it, if any, ends on END) and ends on
\* its own END
OwnMatch(i) ==
    /\ Last(Region(original, i)) = "END"
    /\ i > 1 => Last(Region(original, i - 1)) = "END"

\* C1: a second run of the patcher leaves the file as the first run wrote it:
\* patch(patch(t)) = patch(t)
C1_Idempotent == runs >= 2 => content = previous

\* C1 witness: a second run has happened on a file the first run changed
C1_Witness == runs = 2 /\ previous # original /\ content = previous

\* C2: when the ids of every Template are pairwise distinct before the run,
\* they are pairwise distinct after it
C2_UniqueIdsPreserved ==
    runs = 1 =>
        \A i \in 1..NumTemplates :
            Distinct(Records(Region(original, i)))
                => Distinct(Records(Region(content, i)))

C4_IndependentDecision ==
    runs = 1 =>
        \A i, j \in 1..NumTemplates : \A s \in TemplateShapes :
            i # j =>
                LET other == re_sub(RenderFile([templates EXCEPT ![j] = s]))
                IN (Records(Region(other, i)) # Records(Region(original, i)))
                       = InjectedInto(content, i)

\* C5: a Template whose block holds the marker is byte-identical after the
\* run, from the START of its list through its closing
C5_SkipUnchanged ==
    runs = 1 =>
        \A i \in 1..NumTemplates :
            MarkerIn(i) => Region(content, i) = Region(original, i)

\* C5 witness: the run patched one Template and skipped another that holds
\* the marker
C5_Witness ==
    /\ runs = 1
    /\ \E i, j \in 1..NumTemplates :
          /\ MarkerIn(i) /\ Region(content, i) = Region(original, i)
          /\ ~MarkerIn(j) /\ InjectedInto(content, j)

\* the text of a list without its whitespace has one comma between two
\* records, none before the first record and none doubled
SeparatorsOK(region) ==
    LET IsText(tok) == tok # "NL"
        body == SelectSeq(SubSeq(region, 2, Len(region) - 1), IsText)
    IN /\ body # <<>> => body[1] # ","
       /\ \A k \in 1..(Len(body) - 1) :
             /\ ~(body[k] = "," /\ body[k + 1] = ",")
             /\ ~(IsQuestion(body[k]) /\ IsQuestion(body[k + 1]))

\* C9: every patched Template has exactly one comma between consecutive
\* records and none before the first, however many Questions it had
C9_SeparatorsCorrect ==
    runs = 1 =>
        \A i \in 1..NumTemplates :
            InjectedInto(content, i) => SeparatorsOK(Region(content, i))

(***************************************************************************)
(* The gridCapacity splice, backup_20251122_083649/add_grid_capacity.py    *)
(*                                                                         *)
(* Tokens of the data file, at the level of its braces and brackets:       *)
(*   "A["  "export const x = ["       "A]"  "];"                           *)
(*   "T{"  "  {"                      "T}"  "  }"      one Template        *)
(*   "L["  "    customQuestions: ["   "L]"  "    ]"    its question list   *)
(*   "Q{"  "      {"                  "Q}"  "      }"  one Question        *)
(*   "idOther" "idGridConnection" "idGridCapacity"  "        id: '...',"   *)
(*   "reqTrue" "reqFalse"             "        required: true|false"       *)
(*   "NL"  "\n"                       ","   ","                            *)
(***************************************************************************)
MaxCapTemplates == 2
MaxCapQuestions == 2

\* GRID_CAPACITY_QUESTION, lines 9-18: it starts with "      }," and ends
\* with "required: false", with no closing brace of its own
GRID_CAPACITY_QUESTION ==
    <<"Q}", ",", "NL", "Q{", "NL", "idGridCapacity", "NL", "reqFalse">>

\* add_capacity_question(match): the matched block, then the new text
add_capacity_question(grid_connection_block) ==
    grid_connection_block \o GRID_CAPACITY_QUESTION

\* pattern = (id: 'gridConnection',[\s\S]*?required: true\n      })
\* the text "required: true\n      }" is the tokens reqTrue, NL, Q}
EndsCapacityMatch(text, q) ==
    /\ q + 2 <= Len(text)
    /\ text[q] = "reqTrue" /\ text[q + 1] = "NL" /\ text[q + 2] = "Q}"

\* re.sub(pattern, add_capacity_question, content)
RECURSIVE cap_re_sub(_)
cap_re_sub(text) ==
    LET starts == {p \in 1..Len(text) : text[p] = "idGridConnection"}
    IN IF starts = {} THEN text
       ELSE LET p == Min(starts)
                ends == {q \in (p + 1)..Len(text) : EndsCapacityMatch(text, q)}
            IN IF ends = {} THEN text
               ELSE LET q == Min(ends)
                    IN SubSeq(text, 1, p - 1)
                       \o add_capacity_question(SubSeq(text, p, q + 2))
                       \o cap_re_sub(SubSeq(text, q + 3, Len(text)))

\* the Questions a Template of the input may hold; the gridConnection
\* Question is required, as the patcher writes it
CapQuestions ==
    {[id |-> "idOther", req |-> "reqTrue"],
     [id |-> "idOther", req |-> "reqFalse"],
     [id |-> "idGridConnection", req |-> "reqTrue"]}

CapTemplates ==
    {[qs |-> q, comma |-> c] :
        q \in UNION {[1..n -> CapQuestions] : n \in 0..MaxCapQuestions},
        c \in BOOLEAN} \ {[qs |-> <<>>, comma |-> TRUE]}

CapRenderQuestion(q) == <<"Q{", "NL", q.id, "NL", q.req, "NL", "Q}">>

RECURSIVE CapRenderQuestions(_)
CapRenderQuestions(qs) ==
    IF qs = <<>> THEN <<>>
    ELSE IF Len(qs) = 1 THEN CapRenderQuestion(qs[1])
    ELSE CapRenderQuestion(qs[1]) \o <<",", "NL">>
         \o CapRenderQuestions(Tail(qs))

CapRenderTemplate(t) ==
    <<"T{", "NL", "L[", "NL">>
    \o CapRenderQuestions(t.qs)
    \o (IF t.comma THEN <<",">> ELSE <<>>)
    \o (IF t.qs = <<>> THEN <<>> ELSE <<"NL">>)
    \o <<"L]", "NL", "T}", ",", "NL">>

CapRenderFile(ts) ==
    <<"A[", "NL">>
    \o Flatten([i \in 1..Len(ts) |-> CapRenderTemplate(ts[i])])
    \o <<"A]">>

InitCapacity ==
    /\ \E ts \in UNION {[1..n -> CapTemplates] : n \in 1..MaxCapTemplates} :
          cap_input = CapRenderFile(ts)
    /\ cap_content = cap_input
    /\ cap_pc = "start"
    /\ IdlePatcher /\ IdleStripe /\ IdleEditor

\* the script: read the file, re.sub, write it back (lines 21-36)
RunCapacity ==
    /\ cap_pc = "start"
    /\ cap_content' = cap_re_sub(cap_content)
    /\ cap_pc' = "done"
    /\ UNCHANGED cap_input
    /\ UNCHANGED <<patcher_vars, stripe_vars, editor_vars>>

SpecCapacity == InitCapacity /\ [][RunCapacity]_vars

\* every closing token closes the innermost open token of its own kind
\* (a brace closes a brace, a bracket a bracket) and nothing is left open
Opens == {"A[", "T{", "L[", "Q{"}
Closes == {"A]", "T}", "L]", "Q}"}
Kind(tok) == IF tok \in {"T{", "Q{", "T}", "Q}"} THEN "brace" ELSE "bracket"

RECURSIVE Nested(_, _)
Nested(text, stack) ==
    IF text = <<>> THEN stack = <<>>
    ELSE IF Head(text) \in Opens
         THEN Nested(Tail(text), <<Kind(Head(text))>> \o stack)
    ELSE IF Head(text) \in Closes
         THEN /\ stack # <<>>
              /\ Head(stack) = Kind(Head(text))
              /\ Nested(Tail(text), Tail(stack))
    ELSE Nested(Tail(text), stack)

StructurallyValid(text) == Nested(text, <<>>)

\* the gridCapacity fields are a record of their own: the brace or bracket
\* before them opens a Question and the one after them closes a Question
OwnRecord(text, k) ==
    LET before == {b \in 1..(k - 1) : text[b] \in Opens \cup Closes}
        after == {a \in (k + 1)..Len(text) : text[a] \in Opens \cup Closes}
    IN /\ before # {} /\ text[CHOOSE b \in before : \A c \in before : c <= b] = "Q{"
       /\ after # {} /\ text[Min(after)] = "Q}"

\* C8: the splice turns a structurally valid file into a structurally valid
\* file in which every gridCapacity Question is a record of its own
C8_SpliceStructurallyValid ==
    (cap_pc = "done" /\ StructurallyValid(cap_input)) =>
        /\ StructurallyValid(cap_content)
        /\ \A k \in 1..Len(cap_content) :
              cap_content[k] = "idGridCapacity" => OwnRecord(cap_content, k)

(***************************************************************************)
(* Billing provisioning, scripts/create_stripe_products.py                 *)
(***************************************************************************)
\* plans, lines 32-39: the tiers in the order Builder, Pro, Advanced
plans == <<"starter", "pro", "advanced">>

Tiers == {plans[k] : k \in 1..Len(plans)}

\* what one stripe_api call (lines 23-28) can come to: a JSON object with an
\* id, a JSON object without one (an error response), or output of curl
\* that json.loads cannot parse, which raises out of stripe_api
Outcomes == {"id", "error", "raise"}

\* faulty variant: the `continue` after a failed call is missing
position_after_no_continue(at, outcome) ==
    IF outcome = "raise" THEN "aborted"
    ELSE IF at = "product" THEN "monthly"
    ELSE IF at = "monthly" THEN "annual"
    ELSE "next_plan"

\* where the loop body goes after the call made at `at` (lines 47-96):
\* no try/except surrounds a call, so a raise ends the script; `continue`
\* after a response without an id; otherwise the next call of the plan
position_after(at, outcome) ==
    IF outcome = "raise" THEN "aborted"
    ELSE IF outcome = "error" THEN "next_plan"
    ELSE IF at = "product" THEN "monthly"
    ELSE IF at = "monthly" THEN "annual"
    ELSE "next_plan"

Request(tier, endpoint, interval) ==
    [tier |-> tier, endpoint |-> endpoint, interval |-> interval]

\* one call of the loop body and what follows it up to the next call: the
\* request is issued, its outcome decides where the loop goes, and the tier
\* is recorded in results after the third call came back with an id
AfterCall(at, endpoint, interval, outcome) ==
    LET to == position_after(at, outcome)
    IN [requests |-> Append(requests,
                            Request(plans[plan_idx], endpoint, interval)),
        responses |-> Append(responses, outcome),
        results |-> IF at = "annual" /\ outcome = "id"
                    THEN results \cup {plans[plan_idx]}
                    ELSE results,
        plan_idx |-> IF to = "next_plan" THEN plan_idx + 1 ELSE plan_idx,
        step |-> IF to # "next_plan" THEN to
                 ELSE IF plan_idx = Len(plans) THEN "summary"
                 ELSE "product"]

\* lines 47-58
CreateProduct ==
    /\ step = "product"
    /\ \E outcome \in Outcomes :
          LET after == AfterCall("product", "products", "none", outcome)
          IN /\ requests' = after.requests
             /\ responses' = after.responses
             /\ results' = after.results
             /\ plan_idx' = after.plan_idx
             /\ step' = after.step
    /\ UNCHANGED <<patcher_vars, capacity_vars, editor_vars>>

\* lines 61-74
CreateMonthlyPrice ==
    /\ step = "monthly"
    /\ \E outcome \in Outcomes :
          LET after == AfterCall("monthly", "prices", "month", outcome)
          IN /\ requests' = after.requests
             /\ responses' = after.responses
             /\ results' = after.results
             /\ plan_idx' = after.plan_idx
             /\ step' = after.step
    /\ UNCHANGED <<patcher_vars, capacity_vars, editor_vars>>

\* lines 77-96
CreateAnnualPrice ==
    /\ step = "annual"
    /\ \E outcome \in Outcomes :
          LET after == AfterCall("annual", "prices", "year", outcome)
          IN /\ requests' = after.requests
             /\ responses' = after.responses
             /\ results' = after.results
             /\ plan_idx' = after.plan_idx
             /\ step' = after.step
    /\ UNCHANGED <<patcher_vars, capacity_vars, editor_vars>>

\* lines 98-119: the final summary output
PrintSummary ==
    /\ step = "summary"
    /\ step' = "done"
    /\ UNCHANGED <<plan_idx, requests, responses, results>>
    /\ UNCHANGED <<patcher_vars, capacity_vars, editor_vars>>

InitStripe ==
    /\ plan_idx = 1 /\ step = "product"
    /\ requests = <<>> /\ responses = <<>> /\ results = {}
    /\ IdlePatcher /\ IdleCapacity /\ IdleEditor

SpecStripe ==
    InitStripe
    /\ [][CreateProduct \/ CreateMonthlyPrice \/ CreateAnnualPrice
          \/ PrintSummary]_vars

\* the requests issued for a tier, and the outcome of one of them
Issued(tier, endpoint, interval) ==
    {k \in 1..Len(requests) :
        requests[k] = Request(tier, endpoint, interval)}

Count(tier, endpoint, interval) == Cardinality(Issued(tier, endpoint, interval))

Returned(tier, endpoint, interval, outcome) ==
    \E k \in Issued(tier, endpoint, interval) : responses[k] = outcome

\* C6 as claimed: whatever the API returns, every tier gets exactly one
\* Product request, one month Price request and one year Price request
C6_ExactlyOneProductTwoPrices ==
    step = "done" =>
        \A t \in Tiers :
            /\ Count(t, "products", "none") = 1
            /\ Count(t, "prices", "month") = 1
            /\ Count(t, "prices", "year") = 1

\* C6 amended: every tier gets at most one Product request, at most one
\* month Price request and at most one year Price request; the month Price
\* is requested only after the tier's Product came back with an id, the year
\* Price only after its month Price came back with an id; and in a run that
\* reaches the summary every tier got its Product request, its month Price
\* request when the Product has an id and its year Price request when the
\* month Price has an id
C6_RequestsPerTier ==
    \A t \in Tiers :
        /\ Count(t, "products", "none") <= 1
        /\ Count(t, "prices", "month") <= 1
        /\ Count(t, "prices", "year") <= 1
        /\ Count(t, "prices", "month") = 1
              => Returned(t, "products", "none", "id")
        /\ Count(t, "prices", "year") = 1
              => Returned(t, "prices", "month", "id")
        /\ step \in {"summary", "done"} =>
              /\ Count(t, "products", "none") = 1
              /\ Returned(t, "products", "none", "id")
                    => Count(t, "prices", "month") = 1
              /\ Returned(t, "prices", "month", "id")
                    => Count(t, "prices", "year") = 1

\* C6 witness: a finished run in which one tier got all three requests and
\* another tier's Product creation failed, so it got no Price request
C6_Witness ==
    /\ step = "done"
    /\ \E t, u \in Tiers :
          /\ Count(t, "products", "none") = 1
          /\ Count(t, "prices", "month") = 1
          /\ Count(t, "prices", "year") = 1
          /\ Returned(u, "products", "none", "error")
          /\ Count(u, "prices", "month") = 0

\* C7: no failed call stops the script: it ends in its summary, with a
\* Product request issued for every tier
C7_FailureIsolation ==
    step \in {"done", "aborted"} =>
        /\ step = "done"
        /\ \A t \in Tiers : Count(t, "products", "none") = 1

(***************************************************************************)
(* The Structural Line Editor, op1b_extract.py, steps 1 to 3               *)
(*                                                                         *)
(* A line of the list is the number it had in the file as read (1-based);  *)
(* the line step 1 inserts is 0.  Line `anchor` of the file holds the text *)
(* 'import { useWizardLocation }'; anchor = 0 is a file without it.        *)
(***************************************************************************)
MaxExtraLines == 2
MaxAnchorLine == 30

\* the last line the comments of step 3 count on ("Original 3697")
MinFileLines == 3697

\* del lines[2522:2702], line 21
Del1From == 2522
Del1To == 2702

\* del lines[3193:3517], line 28
Del2From == 3193
Del2To == 3517

IMPORT_LINE == 0

\* list.insert(i, x) with 0 <= i <= len(list)
insert(list, i, x) ==
    SubSeq(list, 1, i) \o <<x>> \o SubSeq(list, i + 1, Len(list))

\* del list[a:b] with 0 <= a <= b: the slice is clipped to the list
del_slice(list, a, b) ==
    LET lo == IF a < Len(list) THEN a ELSE Len(list)
        hi == IF b < Len(list) THEN b ELSE Len(list)
    IN SubSeq(list, 1, lo) \o SubSeq(list, hi + 1, Len(list))

InitEditor ==
    /\ file_len \in MinFileLines..(MinFileLines + MaxExtraLines)
    /\ anchor \in 0..MaxAnchorLine
    /\ lines = [k \in 1..file_len |-> k]
    /\ ed_pc = "step1"
    /\ IdlePatcher /\ IdleCapacity /\ IdleStripe

\* Step 1, lines 12-16: insert the import after the first line that holds
\* the useWizardLocation import, if there is one
Step1 ==
    /\ ed_pc = "step1"
    /\ LET found == {i \in 1..Len(lines) : lines[i] = anchor}
       IN lines' = IF found = {} THEN lines
                   ELSE insert(lines, Min(found), IMPORT_LINE)
    /\ ed_pc' = "step2"
    /\ UNCHANGED <<file_len, anchor>>
    /\ UNCHANGED <<patcher_vars, capacity_vars, stripe_vars>>

\* Step 2, line 21
Step2 ==
    /\ ed_pc = "step2"
    /\ lines' = del_slice(lines, Del1From, Del1To)
    /\ ed_pc' = "step3"
    /\ UNCHANGED <<file_len, anchor>>
    /\ UNCHANGED <<patcher_vars, capacity_vars, stripe_vars>>

\* Step 3, line 28
Step3 ==
    /\ ed_pc = "step3"
    /\ lines' = del_slice(lines, Del2From, Del2To)
    /\ ed_pc' = "step4"
    /\ UNCHANGED <<file_len, anchor>>
    /\ UNCHANGED <<patcher_vars, capacity_vars, stripe_vars>>

SpecEditor == InitEditor /\ [][Step1 \/ Step2 \/ Step3]_vars

\* the lines of the file as read that are no longer in the list
Deleted == (1..file_len) \ {lines[k] : k \in 1..Len(lines)}

\* C10: after steps 2 and 3 exactly the lines 2523-2702 and 3374-3697 of the
\* file as read are gone, 504 lines in all
C10_DeletedRanges ==
    ed_pc = "step4" =>
        /\ Deleted = (2523..2702) \cup (3374..3697)
        /\ Cardinality(Deleted) = 504

====
